---------------------------- MODULE Spec2Model ----------------------------
(***************************************************************************)
(* Chandra OCR API service (src/main.py): the request pipeline of          *)
(* POST /ocr and POST /ocr/json, the extension detection of OCRProcessor   *)
(* and GET /health.                                                        *)
(*                                                                         *)
(* Python strings that the code inspects character by character (content   *)
(* types, filenames, extensions) are sequences of one-character strings.   *)
(* An optional value is a sequence of length 0 (None) or 1 (the value).    *)
(***************************************************************************)
EXTENDS Integers, Sequences, FiniteSets, TLC

VARIABLES
    det,     \* one call of detect_extension / validate_extension
    req,     \* the requests: request -> the handler's locals and position
    fs,      \* settings.TEMP_DIR: directory name -> its content
    health   \* the last answer of GET /health, with the probe's outcome

vars == <<det, req, fs, health>>

None == <<>>
Some(v) == <<v>>

--------------------------------------------------------------------------
(* str.lower(), "in", rsplit                                               *)

LowerOf ==
    ("A" :> "a") @@ ("B" :> "b") @@ ("C" :> "c") @@ ("D" :> "d") @@
    ("E" :> "e") @@ ("F" :> "f") @@ ("G" :> "g") @@ ("H" :> "h") @@
    ("I" :> "i") @@ ("J" :> "j") @@ ("K" :> "k") @@ ("L" :> "l") @@
    ("M" :> "m") @@ ("N" :> "n") @@ ("O" :> "o") @@ ("P" :> "p") @@
    ("Q" :> "q") @@ ("R" :> "r") @@ ("S" :> "s") @@ ("T" :> "t") @@
    ("U" :> "u") @@ ("V" :> "v") @@ ("W" :> "w") @@ ("X" :> "x") @@
    ("Y" :> "y") @@ ("Z" :> "z")

\* s.lower()
lower(s) ==
    [i \in 1..Len(s) |-> IF s[i] \in DOMAIN LowerOf THEN LowerOf[s[i]] ELSE s[i]]

\* "." in s
HasDot(s) == \E i \in 1..Len(s) : s[i] = "."

\* s.rsplit(".", 1)[-1]: scan from the right end for the last "."
RECURSIVE rsplit_last(_, _)
rsplit_last(s, i) ==
    IF i = 0 THEN s
    ELSE IF s[i] = "." THEN SubSeq(s, i + 1, Len(s))
    ELSE rsplit_last(s, i - 1)

--------------------------------------------------------------------------
(* OCRProcessor                                                            *)

SUPPORTED_EXTENSIONS ==
    { <<".", "p", "d", "f">>,
      <<".", "j", "p", "g">>,
      <<".", "j", "p", "e", "g">>,
      <<".", "p", "n", "g">>,
      <<".", "b", "m", "p">>,
      <<".", "t", "i", "f", "f">>,
      <<".", "t", "i", "f">>,
      <<".", "w", "e", "b", "p">> }

CONTENT_TYPE_MAP ==
    (<<"a", "p", "p", "l", "i", "c", "a", "t", "i", "o", "n", "/", "p", "d", "f">>
          :> <<".", "p", "d", "f">>)
    @@ (<<"i", "m", "a", "g", "e", "/", "j", "p", "e", "g">> :> <<".", "j", "p", "g">>)
    @@ (<<"i", "m", "a", "g", "e", "/", "j", "p", "g">> :> <<".", "j", "p", "g">>)
    @@ (<<"i", "m", "a", "g", "e", "/", "p", "n", "g">> :> <<".", "p", "n", "g">>)
    @@ (<<"i", "m", "a", "g", "e", "/", "b", "m", "p">> :> <<".", "b", "m", "p">>)
    @@ (<<"i", "m", "a", "g", "e", "/", "t", "i", "f", "f">> :> <<".", "t", "i", "f", "f">>)
    @@ (<<"i", "m", "a", "g", "e", "/", "t", "i", "f">> :> <<".", "t", "i", "f">>)
    @@ (<<"i", "m", "a", "g", "e", "/", "w", "e", "b", "p">> :> <<".", "w", "e", "b", "p">>)

\* the fallback extension ".bin"
FallbackExt == <<".", "b", "i", "n">>

\* upload.content_type or ""   /   a falsy (None or empty) optional string
OrEmpty(opt) == IF opt = None THEN <<>> ELSE opt[1]

\* a plausible slip: the filename is consulted before the content type
detect_extension_filename_first(upload) ==
    LET content_type == lower(OrEmpty(upload.content_type))
        filename     == OrEmpty(upload.filename)
        ext          == <<".">> \o lower(rsplit_last(filename, Len(filename)))
    IN  IF filename /= <<>> /\ HasDot(filename) /\ ext \in SUPPORTED_EXTENSIONS
        THEN ext
        ELSE IF content_type \in DOMAIN CONTENT_TYPE_MAP
        THEN CONTENT_TYPE_MAP[content_type]
        ELSE FallbackExt

detect_extension(upload) ==
    LET content_type == lower(OrEmpty(upload.content_type))
        filename     == OrEmpty(upload.filename)
        ext          == <<".">> \o lower(rsplit_last(filename, Len(filename)))
    IN  IF content_type \in DOMAIN CONTENT_TYPE_MAP
        THEN CONTENT_TYPE_MAP[content_type]
        ELSE IF filename /= <<>> /\ HasDot(filename) /\ ext \in SUPPORTED_EXTENSIONS
        THEN ext
        ELSE FallbackExt

\* a plausible slip: the fallback extension let through
validate_extension_with_fallback(ext) ==
    lower(ext) \in SUPPORTED_EXTENSIONS \cup {FallbackExt}

validate_extension(ext) == lower(ext) \in SUPPORTED_EXTENSIONS

--------------------------------------------------------------------------
(* Declared content types and filenames the calls are tried on             *)

DetContentTypes ==
    { None,
      Some(<<>>),
      Some(<<"i", "m", "a", "g", "e", "/", "p", "n", "g">>),                \* image/png
      Some(<<"I", "M", "A", "G", "E", "/", "P", "N", "G">>),                \* IMAGE/PNG
      Some(<<"I", "m", "a", "g", "e", "/", "J", "p", "e", "g">>),           \* Image/Jpeg
      Some(<<"i", "m", "a", "g", "e", "/", "j", "p", "g">>),                \* image/jpg
      Some(<<"a", "p", "p", "l", "i", "c", "a", "t", "i", "o", "n", "/", "p", "d", "f">>),
      Some(<<"i", "m", "a", "g", "e", "/", "t", "i", "f", "f">>),           \* image/tiff
      Some(<<"i", "m", "a", "g", "e", "/", "t", "i", "f">>),                \* image/tif
      Some(<<"i", "m", "a", "g", "e", "/", "b", "m", "p">>),                \* image/bmp
      Some(<<"i", "m", "a", "g", "e", "/", "w", "e", "b", "p">>),           \* image/webp
      Some(<<"t", "e", "x", "t", "/", "p", "l", "a", "i", "n">>),           \* text/plain
      Some(<<"p", "n", "g">>) }                                             \* png

DetFilenames ==
    { None,
      Some(<<>>),
      Some(<<"a">>),                                         \* a
      Some(<<"a", ".", "p", "d", "f">>),                     \* a.pdf
      Some(<<"a", ".", "P", "D", "F">>),                     \* a.PDF
      Some(<<"a", ".", "J", "p", "e", "g">>),                \* a.Jpeg
      Some(<<"a", ".", "t", "x", "t">>),                     \* a.txt
      Some(<<".", "p", "n", "g">>),                          \* .png
      Some(<<"a", ".">>),                                    \* a.
      Some(<<"a", ".", "b", ".", "t", "i", "f">>),           \* a.b.tif
      Some(<<"a", ".", "p", "d", "f", ".", "e", "x", "e">>), \* a.pdf.exe
      Some(<<"a", ".", "w", "e", "b", "p">>),                \* a.webp
      Some(<<"a", ".", "b", "m", "p">>),                     \* a.bmp
      Some(<<"a", ".", "t", "i", "f", "f">>),                \* a.tiff
      Some(<<"a", ".", "j", "p", "g">>),                     \* a.jpg
      Some(<<"p", "d", "f">>) }                              \* pdf

NoDet == [pc |-> "off", content_type |-> None, filename |-> None,
          ext |-> None, valid |-> None]


--------------------------------------------------------------------------
(* settings (src/config.py)                                                *)

MAX_FILE_SIZE == 100 * 1024 * 1024
OCR_TIMEOUT == 600

\* file.read(8192)
CHUNK == 8192

--------------------------------------------------------------------------
(* The filesystem under settings.TEMP_DIR.  A directory holds at most the  *)
(* input file and the engine's output subtree.                             *)

Absent == [exists |-> FALSE, input |-> None, output |-> None]
EmptyDir == [exists |-> TRUE, input |-> None, output |-> None]

\* what output_dir holds right after output_dir.mkdir(exist_ok=True)
EmptyTree == [md |-> None, html |-> None, metadata |-> "none", png |-> 0, other |-> 0]

\* tempfile.mkdtemp(prefix=f"chandra_{request_id}_", dir=TEMP_DIR): the name
\* is the prefix and a random suffix
DirName(request_id, suffix) == <<request_id, suffix>>

\* a plausible slip: the directory is named after the request id alone and
\* made with exist_ok, so an existing directory is taken over
mkdtemp_exist_ok(d) == TRUE

\* mkdtemp only returns a directory it has itself created (mkdir fails with
\* FileExistsError on a taken name and another suffix is drawn)
mkdtemp(d) == ~fs[d].exists

--------------------------------------------------------------------------
(* Exceptions and what leaves a handler                                    *)

HTTPException(status_code, detail) ==
    [type |-> "HTTPException", status_code |-> status_code, detail |-> detail]
ValueError(msg)   == [type |-> "ValueError",   status_code |-> 0, detail |-> msg]
RuntimeError(msg) == [type |-> "RuntimeError", status_code |-> 0, detail |-> msg]
OSError(msg)      == [type |-> "OSError",      status_code |-> 0, detail |-> msg]

\* the message texts, by the error they report
Msg(kind, arg) == [kind |-> kind, arg |-> arg]

\* a plausible slip: the inner handlers of /ocr swapped
ocr_endpoint_except_swapped(e, inner) ==
    IF inner /\ e.type = "ValueError" THEN HTTPException(500, e.detail)
    ELSE IF inner /\ e.type = "RuntimeError" THEN HTTPException(400, e.detail)
    ELSE e

\* ocr_endpoint: "except ValueError" / "except RuntimeError" guard only the
\* inner try around run_chandra_ocr; everything else propagates
ocr_endpoint_except(e, inner) ==
    IF inner /\ e.type = "ValueError" THEN HTTPException(400, e.detail)
    ELSE IF inner /\ e.type = "RuntimeError" THEN HTTPException(500, e.detail)
    ELSE e

\* ocr_json_endpoint: "except HTTPException: raise" / "except Exception"
ocr_json_endpoint_except(e) ==
    IF e.type = "HTTPException" THEN e
    ELSE HTTPException(500, e.detail)

Leaving(endpoint, e, inner) ==
    IF endpoint = "ocr" THEN ocr_endpoint_except(e, inner)
    ELSE ocr_json_endpoint_except(e)

NoResponse == [status |-> 0, detail |-> None, payload |-> None]

\* the answer to an exception that leaves the handler: an HTTPException
\* carries its status and detail, anything else is the server's bare 500
ExceptionResponse(e) ==
    IF e.type = "HTTPException"
    THEN [status |-> e.status_code, detail |-> Some(e.detail), payload |-> None]
    ELSE [status |-> 500, detail |-> Some(Msg("Internal Server Error", None)),
          payload |-> None]

--------------------------------------------------------------------------
(* The upload stream                                                       *)

Min(a, b) == IF a < b THEN a ELSE b

\* the number of non-empty chunks "await file.read(8192)" returns
NumChunks(size) == (size + CHUNK - 1) \div CHUNK

\* len(chunk) of the i-th chunk
ChunkLen(size, i) == Min(CHUNK, size - (i - 1) * CHUNK)

\* the sum of len(chunk) over chunks lo..hi (halving keeps the depth low)
RECURSIVE SumChunks(_, _, _)
SumChunks(size, lo, hi) ==
    IF lo > hi THEN 0
    ELSE IF lo = hi THEN ChunkLen(size, lo)
    ELSE LET mid == (lo + hi) \div 2
         IN  SumChunks(size, lo, mid) + SumChunks(size, mid + 1, hi)

\* a plausible slip: "file_size = len(chunk)" instead of "+="
StreamedSize_last_chunk(size) ==
    IF size = 0 THEN 0 ELSE ChunkLen(size, NumChunks(size))

\* file_size after the read loop: file_size += len(chunk) for every chunk
StreamedSize(size) == SumChunks(size, 1, NumChunks(size))


--------------------------------------------------------------------------
(* The engine: "chandra" run by subprocess.run.  It is opaque: what it     *)
(* does is drawn from every outcome subprocess.run can report.  What an    *)
(* engine that exits 0 has written is a function of the input file it was  *)
(* given: the recognised text carries the content of that file.            *)

MaxImages == 1

Recognised(kind, content) == <<kind, content>>

\* what the engine does, apart from the content it reads: how subprocess.run
\* ends (TimeoutExpired, an OSError because the binary is missing or cannot
\* be started, or a completed process) and which files a run leaves behind
\* (a file is missing, empty, or carries the recognised text)
FileShapes == {"none", "empty", "text"}

NoFiles == [md |-> "none", html |-> "none", metadata |-> "none", png |-> 0, other |-> 0]

EngineOutcomes ==
    { [kind |-> "TimeoutExpired", returncode |-> 0, stderr |-> <<>>, files |-> NoFiles],
      [kind |-> "OSError", returncode |-> 0, stderr |-> <<>>, files |-> NoFiles] }
    \cup [ kind : {"exit"}, returncode : {1}, stderr : {<<>>, <<"diag">>},
           files : {NoFiles} ]
    \cup [ kind : {"exit"}, returncode : {0}, stderr : {<<>>},
           files : [ md : FileShapes, html : FileShapes,
                     metadata : {"none", "valid", "malformed"},
                     png : 0..MaxImages, other : 0..MaxImages ] ]

\* the files of a run, as the output tree of an engine that read `content`
FileOf(shape, kind, content) ==
    IF shape = "none" THEN None
    ELSE IF shape = "empty" THEN Some(<<>>)
    ELSE Some(Recognised(kind, content))

WriteTree(files, content) ==
    [ md       |-> FileOf(files.md, "md", content),
      html     |-> FileOf(files.html, "html", content),
      metadata |-> files.metadata,
      png      |-> files.png,
      other    |-> files.other ]

\* the command line; the flags are inverted into the exclusion switches
BuildCmd(input_path, output_dir, method, include_images, include_headers) ==
    <<"chandra", input_path, output_dir, "--method", method>>
    \o (IF ~include_images THEN <<"--no-images">> ELSE <<>>)
    \o (IF ~include_headers THEN <<"--no-headers-footers">> ELSE <<>>)

\* a plausible slip: the check of the outputs dropped, an empty result returned
extract_no_check(tree) ==
    [ ok |-> TRUE,
      text |-> OrEmpty(tree.md),
      html |-> OrEmpty(tree.html),
      metadata |-> IF tree.metadata = "valid" THEN Some("metadata") ELSE None,
      images_count |-> tree.png ]

\* run_chandra_ocr after a zero exit: the result dict, and ok = FALSE where
\* the RuntimeError for missing output files is raised.  A glob that finds
\* nothing leaves the field empty; json.loads failing leaves metadata {}.
extract(tree) ==
    LET text == OrEmpty(tree.md)
        html == OrEmpty(tree.html)
    IN  [ ok |-> ~(text = <<>> /\ html = <<>>),
          text |-> text,
          html |-> html,
          metadata |-> IF tree.metadata = "valid" THEN Some("metadata") ELSE None,
          images_count |-> tree.png ]

NoResult == [ok |-> FALSE, text |-> <<>>, html |-> <<>>, metadata |-> None,
             images_count |-> 0]

--------------------------------------------------------------------------
(* One request: the locals of ocr_endpoint / ocr_json_endpoint             *)

Idle ==
    [ pc |-> "idle", endpoint |-> "ocr",
      file |-> [content_type |-> None, filename |-> None,
                body |-> [size |-> 0, content |-> "-"]],
      method |-> None, include_images |-> FALSE, include_headers |-> FALSE,
      tmp_dir |-> None, ext |-> None, file_size |-> 0,
      cmd |-> <<>>, engine_calls |-> 0, proc |-> None, result |-> NoResult,
      exc |-> None, response |-> NoResponse ]

\* raise e at a point of the handler (inner: inside the inner try of /ocr):
\* the except clauses decide what leaves the handler, then "finally" runs
RaiseIn(r, q, e, inner) ==
    LET out == Leaving(q.endpoint, e, inner)
    IN  req' = [req EXCEPT ![r] = [q EXCEPT !.pc = "finally",
                                            !.exc = Some(e),
                                            !.response = ExceptionResponse(out)]]

Raise(r, e, inner) == RaiseIn(r, req[r], e, inner)

\* request_id, tmp_dir = mkdtemp(...); the form fields arrive with the call
Receive(r, endpoint, file, method, include_images, include_headers, request_id, suffix) ==
    LET d == DirName(request_id, suffix)
    IN  /\ req[r].pc = "idle"
        /\ d \in DOMAIN fs
        /\ mkdtemp(d)
        /\ fs' = [fs EXCEPT ![d] = EmptyDir]
        /\ req' = [req EXCEPT ![r] =
                     [Idle EXCEPT !.pc = "validate", !.endpoint = endpoint,
                                  !.file = file, !.method = method,
                                  !.include_images = include_images,
                                  !.include_headers = include_headers,
                                  !.tmp_dir = Some(d)]]
        /\ UNCHANGED <<det, health>>

\* ext = detect_extension(file); if not validate_extension(ext): raise 400
Validate(r) ==
    /\ req[r].pc = "validate"
    /\ LET ext == detect_extension(req[r].file)
       IN  IF ~validate_extension(ext)
           THEN Raise(r, HTTPException(400, Msg("UnsupportedFormat", ext)), FALSE)
           ELSE req' = [req EXCEPT ![r].pc = "ingest", ![r].ext = Some(ext)]
    /\ UNCHANGED <<det, fs, health>>

\* with input_path.open("wb") as f: the read loop, to its end
Ingest(r) ==
    /\ req[r].pc = "ingest"
    /\ \E file_size \in {StreamedSize(req[r].file.body.size)} :
       LET d    == req[r].tmp_dir[1]
           body == req[r].file.body
       IN  IF ~fs[d].exists
           THEN /\ Raise(r, OSError(Msg("FileNotFoundError", d)), FALSE)
                /\ fs' = fs
           ELSE /\ fs' = [fs EXCEPT ![d].input =
                            Some([name |-> <<"input">> \o req[r].ext[1],
                                  size |-> file_size, content |-> body.content])]
                /\ req' = [req EXCEPT ![r].pc = "check", ![r].file_size = file_size]
    /\ UNCHANGED <<det, health>>

\* the disk refuses a write (no space left): the file is there, cut short
IngestOSError(r) ==
    /\ req[r].pc = "ingest"
    /\ req[r].file.body.size > 0
    /\ LET d == req[r].tmp_dir[1]
       IN  /\ fs[d].exists
           /\ fs' = [fs EXCEPT ![d].input =
                       Some([name |-> <<"input">> \o req[r].ext[1],
                             size |-> 0, content |-> req[r].file.body.content])]
           /\ Raise(r, OSError(Msg("No space left on device", d)), FALSE)
    /\ UNCHANGED <<det, health>>

\* a plausible slip: the check for an empty file left out
check_size_no_empty(file_size) ==
    IF file_size > MAX_FILE_SIZE THEN "FileTooLarge" ELSE "ok"

\* if file_size == 0: ...; if file_size > settings.MAX_FILE_SIZE: ...
check_size(file_size) ==
    IF file_size = 0 THEN "EmptyFile"
    ELSE IF file_size > MAX_FILE_SIZE THEN "FileTooLarge"
    ELSE "ok"

\* the two checks after the stream has ended, each raising 400
CheckSize(r) ==
    /\ req[r].pc = "check"
    /\ LET verdict == check_size(req[r].file_size)
       IN  IF verdict = "EmptyFile"
           THEN Raise(r, HTTPException(400, Msg("EmptyFile", None)), FALSE)
           ELSE IF verdict = "FileTooLarge"
           THEN Raise(r, HTTPException(400, Msg("FileTooLarge", req[r].file_size)), FALSE)
           ELSE req' = [req EXCEPT ![r].pc = "ocr"]
    /\ UNCHANGED <<det, fs, health>>


\* method or "hf"
MethodOrDefault(method) ==
    IF method = None \/ method[1] = "" THEN "hf" ELSE method[1]

\* proc.stderr[-2000:] if proc.stderr else "Unknown error"
ErrorMsg(stderr) ==
    IF stderr = <<>> THEN <<"Unknown error">>
    ELSE SubSeq(stderr, IF Len(stderr) > 2000 THEN Len(stderr) - 1999 ELSE 1, Len(stderr))

\* run_chandra_ocr, to the start of the subprocess: the method check, the
\* output directory, the command line
InvokeEngine(r) ==
    /\ req[r].pc = "ocr"
    /\ LET d      == req[r].tmp_dir[1]
           method == MethodOrDefault(req[r].method)
       IN  IF method \notin {"hf", "vllm"}
           THEN /\ Raise(r, ValueError(Msg("InvalidMethod", method)), TRUE)
                /\ fs' = fs
           ELSE IF ~fs[d].exists
           THEN /\ Raise(r, OSError(Msg("FileNotFoundError", d)), TRUE)
                /\ fs' = fs
           ELSE /\ fs' = [fs EXCEPT ![d].output =
                            IF fs[d].output = None THEN Some(EmptyTree) ELSE @]
                /\ req' = [req EXCEPT
                     ![r].pc = "processing",
                     ![r].engine_calls = @ + 1,
                     ![r].cmd = BuildCmd(<<d, <<"input">> \o req[r].ext[1]>>,
                                         <<d, "output">>, method,
                                         req[r].include_images,
                                         req[r].include_headers)]
    /\ UNCHANGED <<det, health>>

\* a plausible slip: the exit status of the engine never looked at
returncode_ignored(proc) == FALSE

\* if proc.returncode != 0
returncode_failed(proc) == proc.returncode /= 0

\* subprocess.run returns or raises; the engine has read cmd[1] and, on a
\* zero exit, written its files under cmd[2]
EngineReturn(r, o) ==
    /\ req[r].pc = "processing"
    /\ o \in EngineOutcomes
    /\ LET d   == req[r].cmd[2][1]
           out == req[r].cmd[3][1]
           inp == fs[d].input
           proc == [returncode |-> o.returncode, stderr |-> o.stderr]
       IN  IF o.kind = "TimeoutExpired"
           THEN /\ Raise(r, RuntimeError(Msg("EngineTimeout", OCR_TIMEOUT)), TRUE)
                /\ fs' = fs
           ELSE IF o.kind = "OSError"
           THEN /\ Raise(r, OSError(Msg("No such file or directory", "chandra")), TRUE)
                /\ fs' = fs
           ELSE IF returncode_failed(proc)
           THEN /\ RaiseIn(r, [req[r] EXCEPT !.proc = Some(proc)],
                           RuntimeError(Msg("EngineFailure",
                                            <<o.returncode, ErrorMsg(o.stderr)>>)), TRUE)
                /\ fs' = fs
           ELSE /\ fs[d].exists /\ inp /= None /\ fs[out].exists
                /\ fs' = [fs EXCEPT ![out].output = Some(WriteTree(o.files, inp[1].content))]
                /\ req' = [req EXCEPT ![r].pc = "extract", ![r].proc = Some(proc)]
    /\ UNCHANGED <<det, health>>

\* run_chandra_ocr after the zero exit: the globs, the reads, the check
Extract(r) ==
    /\ req[r].pc = "extract"
    /\ LET out  == req[r].cmd[3][1]
           tree == IF fs[out].exists /\ fs[out].output /= None
                   THEN fs[out].output[1] ELSE EmptyTree
           res  == extract(tree)
       IN  IF ~res.ok
           THEN Raise(r, RuntimeError(Msg("NoOutputProduced", None)), TRUE)
           ELSE req' = [req EXCEPT ![r].pc = "respond", ![r].result = res]
    /\ UNCHANGED <<det, fs, health>>

\* return result['text']
ocr_endpoint_return(q) ==
    [status |-> 200, detail |-> None, payload |-> Some([text |-> q.result.text])]

\* return {"success": True, "text": ..., ...}
ocr_json_endpoint_return(q) ==
    [status |-> 200, detail |-> None,
     payload |-> Some([ success |-> TRUE,
                        text |-> q.result.text,
                        html |-> IF q.result.html /= <<>> THEN Some(q.result.html) ELSE None,
                        metadata |-> q.result.metadata,
                        images_count |-> q.result.images_count,
                        file_size |-> q.file_size,
                        filename |-> q.file.filename ])]

Respond(r) ==
    /\ req[r].pc = "respond"
    /\ req' = [req EXCEPT ![r].pc = "finally",
                          ![r].response = IF req[r].endpoint = "ocr"
                                          THEN ocr_endpoint_return(req[r])
                                          ELSE ocr_json_endpoint_return(req[r])]
    /\ UNCHANGED <<det, fs, health>>

\* shutil.rmtree(tmp_dir, ignore_errors=True)
rmtree(d) == [fs EXCEPT ![d] = Absent]

\* a plausible slip: the directory removed after the return only, not in a
\* finally clause
CleanupFs_on_success_only(r) ==
    IF req[r].exc = None THEN rmtree(req[r].tmp_dir[1]) ELSE fs

\* finally: shutil.rmtree(tmp_dir, ignore_errors=True)
CleanupFs(r) == rmtree(req[r].tmp_dir[1])

Cleanup(r) ==
    /\ req[r].pc = "finally"
    /\ fs' = CleanupFs(r)
    /\ req' = [req EXCEPT ![r].pc = "done"]
    /\ UNCHANGED <<det, health>>


--------------------------------------------------------------------------
(* GET /health                                                             *)

\* how subprocess.run(["chandra", "--help"], timeout=5) ends
ProbeOutcomes ==
    { [kind |-> "FileNotFoundError", returncode |-> 0],
      [kind |-> "PermissionError",   returncode |-> 0],
      [kind |-> "TimeoutExpired",    returncode |-> 0],
      [kind |-> "exit",              returncode |-> 0],
      [kind |-> "exit",              returncode |-> 1] }

NoHealth == [probe |-> [kind |-> "none", returncode |-> 0], status |-> "none",
             chandra_available |-> FALSE, temp_dir_exists |-> FALSE]

\* a plausible slip: a completed probe counts as available whatever its exit
health_check_any_exit(p) ==
    LET chandra_available == (p.kind = "exit")
    IN  [probe |-> p,
         status |-> IF chandra_available THEN "healthy" ELSE "unhealthy",
         chandra_available |-> chandra_available,
         temp_dir_exists |-> TRUE]

\* try: chandra_available = result.returncode == 0
\* except Exception: chandra_available = False
health_check(p) ==
    LET chandra_available == IF p.kind = "exit" THEN p.returncode = 0 ELSE FALSE
    IN  [probe |-> p,
         status |-> IF chandra_available THEN "healthy" ELSE "unhealthy",
         chandra_available |-> chandra_available,
         temp_dir_exists |-> TRUE]

HealthCheck(p) ==
    /\ p \in ProbeOutcomes
    /\ health' = health_check(p)
    /\ UNCHANGED <<det, req, fs>>

--------------------------------------------------------------------------
(* One call of detect_extension, then of validate_extension                *)

DetectCall ==
    /\ det.pc = "call"
    /\ det' = [det EXCEPT !.pc = "detected",
                          !.ext = Some(detect_extension(
                                     [content_type |-> det.content_type,
                                      filename |-> det.filename]))]
    /\ UNCHANGED <<req, fs, health>>

ValidateCall ==
    /\ det.pc = "detected"
    /\ det' = [det EXCEPT !.pc = "validated",
                          !.valid = Some(validate_extension(det.ext[1]))]
    /\ UNCHANGED <<req, fs, health>>

--------------------------------------------------------------------------
(* The inputs                                                              *)

\* request_id = datetime.now().strftime(...): requests of the same
\* microsecond share it
Stamps == {"20250101_120000_000001"}

PNG == <<"i", "m", "a", "g", "e", "/", "p", "n", "g">>

\* declared type and name: a mapped type, a type in capitals with a foreign
\* name, a name alone (in capitals), neither, nothing declared
Declared ==
    { [content_type |-> Some(PNG), filename |-> Some(<<"a", ".", "p", "n", "g">>)],
      [content_type |-> None, filename |-> Some(<<"a", ".", "P", "D", "F">>)],
      [content_type |-> Some(<<"t", "e", "x", "t", "/", "p", "l", "a", "i", "n">>),
       filename |-> Some(<<"a", ".", "t", "x", "t">>)],
      [content_type |-> None, filename |-> None] }

\* body sizes: empty, one byte, a chunk and a byte, the maximum, one more
Sizes == {0, 1, CHUNK + 1, MAX_FILE_SIZE, MAX_FILE_SIZE + 1}

Uploads ==
    { [content_type |-> u.content_type, filename |-> u.filename,
       body |-> [size |-> n, content |-> "A"]] : u \in Declared, n \in Sizes }

Methods == {None, Some(""), Some("vllm"), Some("fast")}

Endpoints == {"ocr", "ocr_json"}

\* the requests handled at once, and the suffixes mkdtemp draws from
NumReq == 2
NumSuffix == 2

ConcUploads(r) ==
    { [content_type |-> Some(PNG), filename |-> None,
       body |-> [size |-> 1, content |-> r]] }

ConcOutcomes ==
    { o \in EngineOutcomes :
        \/ o.kind = "TimeoutExpired"
        \/ /\ o.kind = "exit" /\ o.returncode = 0
           /\ o.files = [md |-> "text", html |-> "none", metadata |-> "none",
                         png |-> 0, other |-> 0] }

HealthOutcomes ==
    { o \in EngineOutcomes :
        \/ o.kind \in {"TimeoutExpired", "OSError"}
        \/ o.kind = "exit" /\ o.files.metadata = "none" /\ o.files.png = 0
           /\ o.files.other = 0 /\ o.files.html = "none" /\ o.stderr = <<>> }

--------------------------------------------------------------------------
(* Specifications                                                          *)

Dirs(suffixes) == { DirName(s, x) : s \in Stamps, x \in suffixes }

InitWith(requests, suffixes) ==
    /\ det = NoDet
    /\ req = [r \in requests |-> Idle]
    /\ fs = [d \in Dirs(suffixes) |-> Absent]
    /\ health = NoHealth

EngineReturns(r, outcomes) ==
    /\ req[r].pc = "processing"
    /\ \E o \in outcomes : EngineReturn(r, o)

\* the steps of a request after it was received
Step(r, outcomes) ==
    \/ Validate(r)
    \/ Ingest(r)
    \/ IngestOSError(r)
    \/ CheckSize(r)
    \/ InvokeEngine(r)
    \/ EngineReturns(r, outcomes)
    \/ Extract(r)
    \/ Respond(r)
    \/ Cleanup(r)

\* one request, every upload, form field and engine outcome
Init == InitWith({1}, {1})

ReceiveAny(r) ==
    /\ req[r].pc = "idle"
    /\ \E endpoint \in Endpoints, file \in Uploads, method \in Methods,
          include_images \in BOOLEAN, include_headers \in BOOLEAN,
          request_id \in Stamps, suffix \in {1} :
           Receive(r, endpoint, file, method, include_images, include_headers,
                   request_id, suffix)

Next == \E r \in {1} : ReceiveAny(r) \/ Step(r, EngineOutcomes)

Spec == Init /\ [][Next]_vars

\* requests handled at once
InitConc == InitWith(1..NumReq, 1..NumSuffix)

ReceiveConc(r) ==
    /\ req[r].pc = "idle"
    /\ \E endpoint \in Endpoints, file \in ConcUploads(r),
          request_id \in Stamps, suffix \in 1..NumSuffix :
           Receive(r, endpoint, file, None, FALSE, FALSE, request_id, suffix)

NextConc == \E r \in 1..NumReq : ReceiveConc(r) \/ Step(r, ConcOutcomes)

SpecConc == InitConc /\ [][NextConc]_vars

\* a request and the health checks beside it
InitHealth == InitWith({1}, {1})

NextHealth ==
    \/ \E r \in {1} : ReceiveConc(r) \/ Step(r, HealthOutcomes)
    \/ \E p \in ProbeOutcomes : HealthCheck(p)

SpecHealth == InitHealth /\ [][NextHealth]_vars

\* the calls of detect_extension on every declared type and name
InitDetect ==
    /\ det \in [pc : {"call"}, content_type : DetContentTypes,
                filename : DetFilenames, ext : {None}, valid : {None}]
    /\ req = <<>>
    /\ fs = <<>>
    /\ health = NoHealth

NextDetect == DetectCall \/ ValidateCall

SpecDetect == InitDetect /\ [][NextDetect]_vars


--------------------------------------------------------------------------
(* What the properties speak of                                            *)

\* the response of the request is decided / the handler has returned
Answered(q) == q.pc \in {"finally", "done"}
Finished(q) == q.pc = "done"

\* the error a response reports
Kind(response) == IF response.detail = None THEN "none" ELSE response.detail[1].kind

\* the declared content type is in the MIME table (types compare without case)
MappedType(content_type) == lower(OrEmpty(content_type)) \in DOMAIN CONTENT_TYPE_MAP

\* the extension of a filename: what follows its last dot, in lower case
NameExtensions(filename) ==
    LET s == OrEmpty(filename)
    IN  { <<".">> \o lower(SubSeq(s, i + 1, Len(s))) :
            i \in { k \in 1..Len(s) :
                      s[k] = "." /\ \A j \in (k + 1)..Len(s) : s[j] /= "." } }

RecognisedName(filename) == NameExtensions(filename) \cap SUPPORTED_EXTENSIONS /= {}

SupportedUpload(file) == MappedType(file.content_type) \/ RecognisedName(file.filename)

\* the output tree in the request's workspace
TreeOf(q) == fs[q.tmp_dir[1]].output[1]

--------------------------------------------------------------------------
(* Properties                                                              *)

\* C1: once a request of POST /ocr or POST /ocr/json that acquired a
\* workspace directory has finished, whatever the outcome of the pipeline,
\* its workspace directory does not exist.
C1_WorkspaceRemoved ==
    \A r \in DOMAIN req :
        Finished(req[r]) => ~fs[req[r].tmp_dir[1]].exists

\* a request that failed on an engine timeout has finished, its directory gone
C1_Witness ==
    \E r \in DOMAIN req :
        /\ Finished(req[r])
        /\ Kind(req[r].response) = "EngineTimeout"
        /\ ~fs[req[r].tmp_dir[1]].exists

\* C2: a request rejected by upload validation (unsupported format, zero
\* bytes, more bytes than MAX_FILE_SIZE) is answered with 400 and the engine
\* is invoked zero times for it; an upload larger than MAX_FILE_SIZE fails
\* as FileTooLarge without any engine invocation.
C2_ValidationBeforeEngine ==
    \A r \in DOMAIN req :
        LET q == req[r]
        IN  /\ ( /\ q.pc /= "idle"
                 /\ \/ ~SupportedUpload(q.file)
                    \/ q.file.body.size = 0
                    \/ q.file.body.size > MAX_FILE_SIZE )
               => /\ q.engine_calls = 0
                  /\ q.pc \notin {"processing", "extract", "respond"}
                  /\ q.response.status /= 200
            /\ ( /\ Answered(q)
                 /\ Kind(q.response) \in {"UnsupportedFormat", "EmptyFile", "FileTooLarge"} )
               => q.response.status = 400 /\ q.engine_calls = 0
            /\ ( /\ Answered(q)
                 /\ SupportedUpload(q.file)
                 /\ q.file.body.size > MAX_FILE_SIZE
                 /\ (q.exc = None \/ q.exc[1].type /= "OSError") )
               => Kind(q.response) = "FileTooLarge" /\ q.response.status = 400

\* an upload of one byte too many was answered 400 FileTooLarge, no engine run
C2_Witness ==
    \E r \in DOMAIN req :
        /\ Finished(req[r])
        /\ req[r].file.body.size = MAX_FILE_SIZE + 1
        /\ Kind(req[r].response) = "FileTooLarge"
        /\ req[r].response.status = 400
        /\ req[r].engine_calls = 0

\* C3, as stated: an upload of exactly 0 bytes always fails with EmptyFile,
\* for every declared content type and filename, on both endpoints.
C3_Original ==
    \A r \in DOMAIN req :
        (Answered(req[r]) /\ req[r].file.body.size = 0)
            => Kind(req[r].response) = "EmptyFile"

\* C3, amended: an upload of exactly 0 bytes fails with HTTP 400 on both
\* endpoints: with EmptyFile when its declared type or name is supported,
\* with UnsupportedFormat (the format is checked first) when it is not.
C3_EmptyUpload ==
    \A r \in DOMAIN req :
        LET q == req[r]
        IN  (Answered(q) /\ q.file.body.size = 0)
                => /\ q.response.status = 400
                   /\ SupportedUpload(q.file) => Kind(q.response) = "EmptyFile"
                   /\ ~SupportedUpload(q.file) => Kind(q.response) = "UnsupportedFormat"

\* an empty upload with a supported name was answered EmptyFile by /ocr/json
C3_Witness ==
    \E r \in DOMAIN req :
        /\ Finished(req[r])
        /\ req[r].endpoint = "ocr_json"
        /\ req[r].file.body.size = 0
        /\ req[r].file.content_type = None
        /\ Kind(req[r].response) = "EmptyFile"

\* C4: detect_extension follows the ordered fallback: a content type of the
\* MIME table gives the mapped extension whatever the filename; otherwise a
\* filename extension of the supported set is the result; otherwise the
\* fallback extension.  Types and extensions compare without case.
C4_DetectPolicy ==
    det.pc \in {"detected", "validated"} =>
        LET ext == det.ext[1]
        IN  IF MappedType(det.content_type)
            THEN ext = CONTENT_TYPE_MAP[lower(OrEmpty(det.content_type))]
            ELSE IF RecognisedName(det.filename)
            THEN {ext} = NameExtensions(det.filename)
            ELSE ext = FallbackExt

\* a mapped type won over a different, supported filename extension
C4_Witness ==
    /\ det.pc = "detected"
    /\ MappedType(det.content_type)
    /\ RecognisedName(det.filename)
    /\ {det.ext[1]} /= NameExtensions(det.filename)

\* C5: an upload with neither a recognised content type nor a recognised
\* filename extension is rejected with UnsupportedFormat (400), and no
\* input file is ever written into its workspace.
C5_UnsupportedRejected ==
    \A r \in DOMAIN req :
        LET q == req[r]
        IN  (q.pc /= "idle" /\ ~SupportedUpload(q.file))
                => /\ q.pc \in {"validate", "finally", "done"}
                   /\ fs[q.tmp_dir[1]].input = None
                   /\ q.file_size = 0
                   /\ Answered(q) => /\ q.response.status = 400
                                     /\ Kind(q.response) = "UnsupportedFormat"

\* a non-empty text/plain upload was rejected; its workspace holds no file
C5_Witness ==
    \E r \in DOMAIN req :
        /\ req[r].pc = "finally"
        /\ req[r].file.content_type /= None
        /\ req[r].file.body.size > 0
        /\ Kind(req[r].response) = "UnsupportedFormat"
        /\ fs[req[r].tmp_dir[1]].exists
        /\ fs[req[r].tmp_dir[1]].input = None

\* C6: when the engine exits 0 but the extracted text and HTML are both
\* empty, the request fails with NoOutputProduced (500); no request returns
\* a success whose text and html are both empty.
C6_NoOutputProduced ==
    \A r \in DOMAIN req :
        LET q == req[r]
        IN  /\ ( /\ q.pc = "finally"
                 /\ q.proc /= None
                 /\ q.proc[1].returncode = 0
                 /\ OrEmpty(TreeOf(q).md) = <<>>
                 /\ OrEmpty(TreeOf(q).html) = <<>> )
               => q.response.status = 500 /\ Kind(q.response) = "NoOutputProduced"
            /\ q.response.status = 200
               => /\ ~(q.result.text = <<>> /\ q.result.html = <<>>)
                  /\ q.endpoint = "ocr_json"
                     => ~(q.response.payload[1].text = <<>>
                          /\ q.response.payload[1].html = None)

\* the engine exited 0 leaving a metadata file only: answered NoOutputProduced
C6_Witness ==
    \E r \in DOMAIN req :
        /\ req[r].pc = "finally"
        /\ req[r].proc /= None
        /\ req[r].proc[1].returncode = 0
        /\ TreeOf(req[r]).metadata = "valid"
        /\ TreeOf(req[r]).md = None
        /\ TreeOf(req[r]).html = None
        /\ Kind(req[r].response) = "NoOutputProduced"


\* C7: under any interleaving of requests handled at once, no two requests
\* in progress use the same workspace directory, the input file in a
\* request's workspace is its own upload, and a successful response carries
\* the text recognised from the request's own upload.
C7_Isolation ==
    \A r \in DOMAIN req :
        LET q == req[r]
            active == q.pc \notin {"idle", "done"}
        IN  /\ \A r2 \in DOMAIN req \ {r} :
                   (active /\ req[r2].pc \notin {"idle", "done"})
                       => q.tmp_dir /= req[r2].tmp_dir
            /\ active => fs[q.tmp_dir[1]].exists
            /\ (active /\ fs[q.tmp_dir[1]].input /= None)
                   => fs[q.tmp_dir[1]].input[1].content = q.file.body.content
            /\ (active /\ q.proc /= None /\ q.proc[1].returncode = 0)
                   => TreeOf(q).md \in {None, Some(<<>>),
                                        Some(Recognised("md", q.file.body.content))}
            /\ q.response.status = 200
                   => q.response.payload[1].text
                          = Recognised("md", q.file.body.content)

\* two requests in progress at once, one answered 200 and not yet cleaned
\* up, the other with its engine running
C7_Witness ==
    \E r1, r2 \in DOMAIN req :
        /\ r1 /= r2
        /\ req[r1].pc = "finally" /\ req[r1].response.status = 200
        /\ req[r2].pc = "processing"
        /\ req[r1].file.body.content /= req[r2].file.body.content

\* C8: GET /health reports healthy exactly when the probe exits with status
\* 0, and unhealthy when the binary is absent or the probe raises, times
\* out or exits non-zero; handling it leaves every workspace directory (and
\* every request) as it was.
C8_Health ==
    [][ health' /= health =>
          /\ fs' = fs
          /\ req' = req
          /\ health'.status \in {"healthy", "unhealthy"}
          /\ health'.status = "healthy"
                <=> (health'.probe.kind = "exit" /\ health'.probe.returncode = 0)
          /\ health'.chandra_available <=> health'.status = "healthy" ]_vars

\* /health found the binary absent while a request's workspace existed
C8_Witness ==
    /\ health.status = "unhealthy"
    /\ health.probe.kind = "FileNotFoundError"
    /\ \E d \in DOMAIN fs : fs[d].exists /\ fs[d].input /= None

\* C9: on both endpoints an engine that exceeds the timeout or exits
\* non-zero gives a 500 response, never a 200, and the engine is invoked
\* once for the request, never a second time.
C9_EngineErrors ==
    \A r \in DOMAIN req :
        LET q == req[r]
        IN  /\ q.engine_calls <= 1
            /\ ( /\ Answered(q)
                 /\ q.exc /= None
                 /\ q.exc[1].type = "RuntimeError"
                 /\ q.exc[1].detail.kind \in {"EngineTimeout", "EngineFailure"} )
               => q.response.status = 500 /\ q.engine_calls = 1
            /\ ( /\ Answered(q)
                 /\ q.proc /= None
                 /\ q.proc[1].returncode /= 0 )
               => q.response.status = 500

\* /ocr answered 500 to an engine that exited with status 1
C9_Witness ==
    \E r \in DOMAIN req :
        /\ Finished(req[r])
        /\ req[r].endpoint = "ocr"
        /\ req[r].proc /= None
        /\ req[r].proc[1].returncode = 1
        /\ Kind(req[r].response) = "EngineFailure"
        /\ req[r].response.status = 500

\* C10, as stated: an exception raised in the pipeline that is none of the
\* named error kinds is answered, on both endpoints, with a 500 carrying a
\* generic message; the exception's own text is not in the response.
C10_GenericMessage ==
    \A r \in DOMAIN req :
        LET q == req[r]
        IN  (Answered(q) /\ q.exc /= None /\ q.exc[1].type = "OSError")
                => /\ q.response.status = 500
                   /\ Kind(q.response) = "Internal Server Error"
                   /\ Kind(q.response) /= q.exc[1].detail.kind


\* C11, as stated (for a markdown file that is not empty): when the engine
\* exits 0 having written a markdown file and N files under images/,
\* POST /ocr/json returns success, the markdown file's content as text and
\* images_count = N, whatever the kind of the image files.
C11_ImagesCounted ==
    \A r \in DOMAIN req :
        LET q == req[r]
        IN  ( /\ q.pc = "finally"
              /\ q.endpoint = "ocr_json"
              /\ q.proc /= None
              /\ q.proc[1].returncode = 0
              /\ TreeOf(q).md /= None
              /\ TreeOf(q).md[1] /= <<>> )
                => /\ q.response.status = 200
                   /\ q.response.payload[1].success
                   /\ q.response.payload[1].text = TreeOf(q).md[1]
                   /\ q.response.payload[1].images_count
                          = TreeOf(q).png + TreeOf(q).other


\* the state of a request in the words of the pipeline: Received (the
\* workspace is there), Validated (the extension passed), Ingested (the
\* upload is on disk), Processing (the engine was started), Extracted (the
\* result is assembled), Responded (the return value is made), Failed (an
\* exception left the pipeline), CleanedUp (the finally clause has run)
Stage(q) ==
    CASE q.pc = "idle"                      -> "None"
      [] q.pc = "validate"                  -> "Received"
      [] q.pc = "ingest"                    -> "Validated"
      [] q.pc \in {"check", "ocr"}          -> "Ingested"
      [] q.pc \in {"processing", "extract"} -> "Processing"
      [] q.pc = "respond"                   -> "Extracted"
      [] q.pc = "finally" /\ q.exc = None   -> "Responded"
      [] q.pc = "finally" /\ q.exc /= None  -> "Failed"
      [] q.pc = "done"                      -> "CleanedUp"

StageOrder ==
    { <<"None", "Received">>, <<"Received", "Validated">>,
      <<"Validated", "Ingested">>, <<"Ingested", "Processing">>,
      <<"Processing", "Extracted">>, <<"Extracted", "Responded">>,
      <<"Responded", "CleanedUp">>, <<"Failed", "CleanedUp">> }
    \cup { <<s, "Failed">> : s \in {"Received", "Validated", "Ingested",
                                     "Processing", "Extracted", "Responded"} }

\* C12: a request moves through its states only in the order Received,
\* Validated, Ingested, Processing, Extracted, Responded, with Failed
\* reachable from any of them; the engine is started only after the whole
\* upload is on disk and the empty and size checks have passed; extraction
\* starts only after the engine exited with status 0; CleanedUp is entered
\* only from Responded or Failed and is final: the request takes no further
\* step, and its workspace is gone.
C12_PipelineOrder ==
    [][ \A r \in DOMAIN req :
          LET q == req[r]
              n == req'[r]
          IN  /\ Stage(n) /= Stage(q) => <<Stage(q), Stage(n)>> \in StageOrder
              /\ (Stage(n) = "Processing" /\ Stage(q) /= "Processing")
                    => /\ q.pc = "ocr"
                       /\ fs[q.tmp_dir[1]].input /= None
                       /\ fs[q.tmp_dir[1]].input[1].size = q.file.body.size
                       /\ q.file_size = q.file.body.size
                       /\ q.file_size > 0
                       /\ q.file_size <= MAX_FILE_SIZE
              /\ (n.pc \in {"extract", "respond"} /\ n.pc /= q.pc)
                    => n.proc /= None /\ n.proc[1].returncode = 0
              /\ n.pc = "respond" /\ q.pc /= "respond" => q.pc = "extract"
              /\ Stage(q) = "CleanedUp"
                    => n = q /\ ~fs'[q.tmp_dir[1]].exists ]_vars

\* a request of /ocr went through every state and was cleaned up
C12_Witness ==
    \E r \in DOMAIN req :
        /\ Finished(req[r])
        /\ req[r].endpoint = "ocr"
        /\ req[r].response.status = 200
        /\ req[r].proc /= None
        /\ req[r].file_size = CHUNK + 1


--------------------------------------------------------------------------
(* The two endpoints side by side: request 1 is sent to POST /ocr and      *)
(* request 2 to POST /ocr/json                                             *)

PairEndpoint(r) == IF r = 1 THEN "ocr" ELSE "ocr_json"

PairUploads ==
    { [content_type |-> Some(PNG), filename |-> None,
       body |-> [size |-> n, content |-> "A"]] : n \in {0, 1} }

PairMethods == {None, Some("vllm"), Some("fast")}

InitPair == InitWith({1, 2}, {1, 2})

ReceivePair(r) ==
    /\ req[r].pc = "idle"
    /\ \E file \in PairUploads, method \in PairMethods,
          request_id \in Stamps, suffix \in {r} :
           Receive(r, PairEndpoint(r), file, method, FALSE, FALSE,
                   request_id, suffix)

NextPair == \E r \in {1, 2} : ReceivePair(r) \/ Step(r, HealthOutcomes)

SpecPair == InitPair /\ [][NextPair]_vars

\* C13, as stated: for the same upload, the same form parameters (a method
\* outside {hf, vllm} included) and the same engine behaviour, POST /ocr and
\* POST /ocr/json return the same HTTP status code.
C13_SameStatus ==
    \A r1, r2 \in DOMAIN req :
        LET a == req[r1]
            b == req[r2]
        IN  ( /\ Answered(a) /\ Answered(b)
              /\ a.endpoint = "ocr" /\ b.endpoint = "ocr_json"
              /\ a.file = b.file
              /\ a.method = b.method
              /\ a.include_images = b.include_images
              /\ a.include_headers = b.include_headers
              /\ a.proc = b.proc
              /\ a.result = b.result
              /\ (a.exc = None) = (b.exc = None)
              /\ a.exc /= None =>
                    /\ a.exc[1].type = b.exc[1].type
                    /\ a.exc[1].detail.kind = b.exc[1].detail.kind )
                => a.response.status = b.response.status

=============================================================================
